---- MODULE Spec2Model ----
(***************************************************************************)
(* Model of the Raffle smart contract (src/raffleContract.py): the         *)
(* contract storage self.data, the two entry points open_raffle and        *)
(* buy_ticket, and the execution context of a call (sp.source, sp.sender,  *)
(* sp.amount, sp.now).  A call whose sp.verify fails is reverted by the    *)
(* runtime: the storage is left as it was.                                 *)
(***************************************************************************)
EXTENDS Integers, FiniteSets, Sequences, TLC

(* ------------------------------ bounds --------------------------------- *)
\* last instant (in days) at which a call is made
MaxDays == 8
\* number of tickets sold in the behaviours explored
MaxTickets == 2

(* --------------------------- environment ------------------------------- *)
\* seconds in a day, the unit of add_days
Day == 86400
\* amounts are counted in mutez
tez(n) == n * 1000000

Administrator == "Administrator"
Alice == "Alice"
\* an intermediary contract that forwards calls: it can be sp.sender, never sp.source
Proxy == "Proxy"

\* accounts that can originate a transaction
Implicit == {Administrator, Alice}
Contracts == {Proxy}

\* (source, sender) of a call: a direct call, or a call relayed by a contract
Contexts == {c \in Implicit \X (Implicit \cup Contracts) : c[2] = c[1] \/ c[2] \in Contracts}

\* sp.amount of a buy_ticket call, of an open_raffle call
BuyAmounts == {0, tez(1), tez(5)}
OpenAmounts == {tez(1), tez(5)}
JackpotAmounts == {tez(1), tez(5)}
\* close_date arguments, as offsets from sp.now
CloseOffsets == {4 * Day, 7 * Day, 7 * Day + 1}
\* sha256 digests of two packed ticket numbers
Hashes == {"sha256_345", "sha256_7"}
\* how far the clock moves between two calls
Advance == {0, 8 * Day}

(* ---------------------- contract: pure helpers ------------------------- *)
abs(x) == IF x < 0 THEN -x ELSE x

add_days(t, d) == t + d * Day

EmptyMap == [k \in {} |-> Administrator]

\* m[k] = v on an sp.map
MapSet(m, k, v) == [x \in (DOMAIN m) \cup {k} |-> IF x = k THEN v ELSE m[x]]

ticket_price == tez(1)

\* outcome of a call: Valid, or the message of the sp.verify that failed
Valid == "valid"
Unauthorized == "Administrator not recognized."
AlreadyOpen == "A raffle is already open."
InsufficientFunding == "The administrator does not own enough tz."
WindowTooShort == "The raffle must remain open for at least 7 days."
RaffleClosed == "The raffle is closed."
WrongAmount == "The sender did not send the right tez amount (Ticket price = 1tz)."
AlreadyParticipated == "Each player can participate only once."

Failures == {Unauthorized, AlreadyOpen, InsufficientFunding, WindowTooShort,
             RaffleClosed, WrongAmount, AlreadyParticipated}

\* the storage after Raffle.__init__(address)
init(address) ==
    [admin |-> address,
     close_date |-> 0,
     jackpot |-> tez(0),
     raffle_is_open |-> FALSE,
     players |-> {},
     sold_tickets |-> EmptyMap,
     hash_winning_ticket |-> "0x"]

\* variant: the "already open" verification is missing
open_raffle_failure_no_open_check(d, source, amount, jackpot_amount, close_date, today) ==
    IF source # d.admin THEN Unauthorized
    ELSE IF ~(amount >= jackpot_amount) THEN InsufficientFunding
    ELSE IF ~(close_date > add_days(today, 7)) THEN WindowTooShort
    ELSE Valid

\* variant: the administrator verification is missing
open_raffle_failure_no_admin_check(d, source, amount, jackpot_amount, close_date, today) ==
    IF d.raffle_is_open THEN AlreadyOpen
    ELSE IF ~(amount >= jackpot_amount) THEN InsufficientFunding
    ELSE IF ~(close_date > add_days(today, 7)) THEN WindowTooShort
    ELSE Valid

\* variant: the first two verifications are swapped
open_raffle_failure_reordered(d, source, amount, jackpot_amount, close_date, today) ==
    IF d.raffle_is_open THEN AlreadyOpen
    ELSE IF source # d.admin THEN Unauthorized
    ELSE IF ~(amount >= jackpot_amount) THEN InsufficientFunding
    ELSE IF ~(close_date > add_days(today, 7)) THEN WindowTooShort
    ELSE Valid

\* variant: the funding verification is missing
open_raffle_failure_no_funding_check(d, source, amount, jackpot_amount, close_date, today) ==
    IF source # d.admin THEN Unauthorized
    ELSE IF d.raffle_is_open THEN AlreadyOpen
    ELSE IF ~(close_date > add_days(today, 7)) THEN WindowTooShort
    ELSE Valid

\* variant: the closing date is compared with >= instead of >
open_raffle_failure_weak_window(d, source, amount, jackpot_amount, close_date, today) ==
    IF source # d.admin THEN Unauthorized
    ELSE IF d.raffle_is_open THEN AlreadyOpen
    ELSE IF ~(amount >= jackpot_amount) THEN InsufficientFunding
    ELSE IF ~(close_date >= add_days(today, 7)) THEN WindowTooShort
    ELSE Valid

\* the sp.verify chain of open_raffle, in the order of the code
open_raffle_failure(d, source, amount, jackpot_amount, close_date, today) ==
    IF source # d.admin THEN Unauthorized
    ELSE IF d.raffle_is_open THEN AlreadyOpen
    ELSE IF ~(amount >= jackpot_amount) THEN InsufficientFunding
    ELSE IF ~(close_date > add_days(today, 7)) THEN WindowTooShort
    ELSE Valid

\* variant: the hash of the winning ticket is not stored
open_raffle_store_no_hash(d, jackpot_amount, close_date, hash_winning_ticket) ==
    [d EXCEPT !.close_date = close_date,
              !.jackpot = jackpot_amount,
              !.raffle_is_open = TRUE]

\* variant: raffle_is_open is not set
open_raffle_store_flag_unset(d, jackpot_amount, close_date, hash_winning_ticket) ==
    [d EXCEPT !.close_date = close_date,
              !.jackpot = jackpot_amount,
              !.hash_winning_ticket = hash_winning_ticket]

\* the assignments of open_raffle
open_raffle_store(d, jackpot_amount, close_date, hash_winning_ticket) ==
    [d EXCEPT !.close_date = close_date,
              !.jackpot = jackpot_amount,
              !.hash_winning_ticket = hash_winning_ticket,
              !.raffle_is_open = TRUE]

\* variant: the assignments are kept when the closing date verification fails
open_raffle_data_partial(d, source, amount, jackpot_amount, close_date, hash_winning_ticket, today) ==
    IF open_raffle_failure(d, source, amount, jackpot_amount, close_date, today)
           \in {Valid, WindowTooShort}
    THEN open_raffle_store(d, jackpot_amount, close_date, hash_winning_ticket)
    ELSE d

\* storage after a call of open_raffle: reverted when a verification fails
open_raffle_data(d, source, amount, jackpot_amount, close_date, hash_winning_ticket, today) ==
    IF open_raffle_failure(d, source, amount, jackpot_amount, close_date, today) = Valid
    THEN open_raffle_store(d, jackpot_amount, close_date, hash_winning_ticket)
    ELSE d

\* variant: the "raffle is open" verification is missing
buy_ticket_failure_no_open_check(d, current_player, amount) ==
    IF ~(amount = ticket_price) THEN WrongAmount
    ELSE IF current_player \in d.players THEN AlreadyParticipated
    ELSE Valid

\* variant: the amount is compared with <= instead of ==
buy_ticket_failure_at_most_price(d, current_player, amount) ==
    IF ~d.raffle_is_open THEN RaffleClosed
    ELSE IF ~(amount <= ticket_price) THEN WrongAmount
    ELSE IF current_player \in d.players THEN AlreadyParticipated
    ELSE Valid

\* variant: the raffle counts as closed while no hash of a winning ticket is stored
buy_ticket_failure_needs_commitment(d, current_player, amount) ==
    IF ~d.raffle_is_open \/ d.hash_winning_ticket = "0x" THEN RaffleClosed
    ELSE IF ~(amount = ticket_price) THEN WrongAmount
    ELSE IF current_player \in d.players THEN AlreadyParticipated
    ELSE Valid

\* variant: the "only once" verification is missing
buy_ticket_failure_no_once_check(d, current_player, amount) ==
    IF ~d.raffle_is_open THEN RaffleClosed
    ELSE IF ~(amount = ticket_price) THEN WrongAmount
    ELSE Valid

\* variant: the amount is compared with >= instead of ==
buy_ticket_failure_at_least_price(d, current_player, amount) ==
    IF ~d.raffle_is_open THEN RaffleClosed
    ELSE IF ~(amount >= ticket_price) THEN WrongAmount
    ELSE IF current_player \in d.players THEN AlreadyParticipated
    ELSE Valid

\* the sp.verify chain of buy_ticket, in the order of the code
buy_ticket_failure(d, current_player, amount) ==
    IF ~d.raffle_is_open THEN RaffleClosed
    ELSE IF ~(amount = ticket_price) THEN WrongAmount
    ELSE IF current_player \in d.players THEN AlreadyParticipated
    ELSE Valid

\* variant: the "- 1" is missing
ticket_id_off_by_one(players) == abs(Cardinality(players))

\* ticket_id = abs(sp.len(self.data.players) - 1), after the player was added
ticket_id(players) == abs(Cardinality(players) - 1)

\* variant: the price of the ticket is added to the jackpot
buy_ticket_store_adds_to_jackpot(d, current_player) ==
    LET added == d.players \cup {current_player} IN
    [d EXCEPT !.players = added,
              !.sold_tickets = MapSet(d.sold_tickets, ticket_id(added), current_player),
              !.jackpot = d.jackpot + ticket_price]

\* variant: the player is not added to players
buy_ticket_store_forgets_player(d, current_player) ==
    [d EXCEPT !.sold_tickets = MapSet(d.sold_tickets, ticket_id(d.players), current_player)]

\* the two storage updates of buy_ticket
buy_ticket_store(d, current_player) ==
    LET added == d.players \cup {current_player} IN
    [d EXCEPT !.players = added,
              !.sold_tickets = MapSet(d.sold_tickets, ticket_id(added), current_player)]

\* storage after a call of buy_ticket: reverted when a verification fails
buy_ticket_data(d, current_player, amount) ==
    IF buy_ticket_failure(d, current_player, amount) = Valid
    THEN buy_ticket_store(d, current_player)
    ELSE d

(* ------------------------------ state ---------------------------------- *)
VARIABLES
    data,       \* the contract storage (self.data)
    now,        \* sp.now of the latest call
    last,       \* the latest call: entry point, context, parameters, outcome
    opens,      \* history: the valid open_raffle calls, in order
    purchases,  \* history: the valid buy_ticket calls, in order
    balance     \* history: sum of sp.amount over the valid calls

vars == <<data, now, last, opens, purchases, balance>>

NoCall ==
    [entry_point |-> "none", source |-> Administrator, sender |-> Administrator,
     amount |-> 0, jackpot_amount |-> 0, close_date |-> 0,
     hash_winning_ticket |-> "0x", failure |-> Valid]

Init ==
    /\ data = init(Administrator)
    /\ now = 0
    /\ last = NoCall
    /\ opens = <<>>
    /\ purchases = <<>>
    /\ balance = 0

\* one call of the entry point open_raffle
open_raffle(source, sender, amount, today, jackpot_amount, close_date, hash_winning_ticket) ==
    LET f == open_raffle_failure(data, source, amount, jackpot_amount, close_date, today) IN
    /\ now' = today
    /\ data' = open_raffle_data(data, source, amount, jackpot_amount, close_date,
                                hash_winning_ticket, today)
    /\ last' = [entry_point |-> "open_raffle", source |-> source, sender |-> sender,
                amount |-> amount, jackpot_amount |-> jackpot_amount,
                close_date |-> close_date,
                hash_winning_ticket |-> hash_winning_ticket, failure |-> f]
    /\ opens' = IF f = Valid
                THEN Append(opens, [amount |-> amount, now |-> today,
                                    jackpot_amount |-> jackpot_amount,
                                    close_date |-> close_date,
                                    hash_winning_ticket |-> hash_winning_ticket])
                ELSE opens
    /\ balance' = IF f = Valid THEN balance + amount ELSE balance
    /\ UNCHANGED purchases

\* variant: buy_ticket also verifies that sp.now is not after close_date
buy_ticket_enforcing_close_date(source, sender, amount, today) ==
    LET g == buy_ticket_failure(data, sender, amount)
        f == IF g = Valid /\ today > data.close_date THEN RaffleClosed ELSE g
    IN
    /\ f = Valid => Len(purchases) < MaxTickets
    /\ now' = today
    /\ data' = IF f = Valid THEN buy_ticket_store(data, sender) ELSE data
    /\ last' = [entry_point |-> "buy_ticket", source |-> source, sender |-> sender,
                amount |-> amount, jackpot_amount |-> 0, close_date |-> 0,
                hash_winning_ticket |-> "0x", failure |-> f]
    /\ purchases' = IF f = Valid
                    THEN Append(purchases, [sender |-> sender, amount |-> amount])
                    ELSE purchases
    /\ balance' = IF f = Valid THEN balance + amount ELSE balance
    /\ UNCHANGED opens

\* one call of the entry point buy_ticket
buy_ticket(source, sender, amount, today) ==
    LET f == buy_ticket_failure(data, sender, amount) IN
    /\ f = Valid => Len(purchases) < MaxTickets
    /\ now' = today
    /\ data' = buy_ticket_data(data, sender, amount)
    /\ last' = [entry_point |-> "buy_ticket", source |-> source, sender |-> sender,
                amount |-> amount, jackpot_amount |-> 0, close_date |-> 0,
                hash_winning_ticket |-> "0x", failure |-> f]
    /\ purchases' = IF f = Valid
                    THEN Append(purchases, [sender |-> sender, amount |-> amount])
                    ELSE purchases
    /\ balance' = IF f = Valid THEN balance + amount ELSE balance
    /\ UNCHANGED opens

\* the instants at which the next call can be made
Instants == {t \in {now + a : a \in Advance} : t <= MaxDays * Day}

OpenRaffleCall ==
    \E c \in Contexts, amount \in OpenAmounts, today \in Instants,
       jackpot_amount \in JackpotAmounts, off \in CloseOffsets, h \in Hashes :
        open_raffle(c[1], c[2], amount, today, jackpot_amount, today + off, h)

BuyTicketCall ==
    \E c \in Contexts, amount \in BuyAmounts, today \in Instants :
        buy_ticket(c[1], c[2], amount, today)

Next == OpenRaffleCall \/ BuyTicketCall

Spec == Init /\ [][Next]_vars

(* ------------------------------ claims --------------------------------- *)
\* the step is a call of open_raffle / buy_ticket, described by last'
IsOpenRaffle(c) == c.entry_point = "open_raffle"
IsBuyTicket(c) == c.entry_point = "buy_ticket"
Rejected(c) == c.failure \in Failures
Accepted(c) == c.entry_point # "none" /\ c.failure = Valid

\* C1: a rejected call of open_raffle or buy_ticket (any of the seven failures)
\* leaves every field of the storage as it was before the call.
C1_RejectedCallChangesNothing ==
    [][Rejected(last') => data' = data]_vars

\* C1 witness: a call was rejected in a state that holds an open raffle and a ticket
C1_Witness ==
    /\ Rejected(last)
    /\ data.raffle_is_open
    /\ data.players # {}

\* C2: in every reachable state, sold_tickets has as many entries as players has members.
C2_TicketsSizeEqualsPlayersSize ==
    Cardinality(DOMAIN data.sold_tickets) = Cardinality(data.players)

\* C2 witness: two tickets are sold and the latest call was rejected
C2_Witness ==
    /\ Cardinality(data.players) = 2
    /\ Cardinality(DOMAIN data.sold_tickets) = 2
    /\ Rejected(last)

\* the keys are 0 .. size-1 and the k-th valid purchase holds ticket k
TicketsInPurchaseOrder ==
    /\ DOMAIN data.sold_tickets = 0 .. (Cardinality(data.players) - 1)
    /\ Len(purchases) = Cardinality(data.players)
    /\ \A k \in DOMAIN data.sold_tickets : data.sold_tickets[k] = purchases[k + 1].sender

\* the k-th valid buy_ticket writes entry k, and no entry is overwritten or removed
TicketsOnlyAppended ==
    /\ \A k \in DOMAIN data.sold_tickets :
          k \in DOMAIN data'.sold_tickets /\ data'.sold_tickets[k] = data.sold_tickets[k]
    /\ (IsBuyTicket(last') /\ last'.failure = Valid) =>
          /\ DOMAIN data'.sold_tickets = (DOMAIN data.sold_tickets) \cup {Len(purchases)}
          /\ data'.sold_tickets[Len(purchases)] = last'.sender

\* C3: the keys of sold_tickets are exactly 0 .. players.size()-1, in purchase order: the
\* k-th valid buy_ticket (from 0) writes sold_tickets[k] = its sender, and no later call
\* overwrites or removes an entry.
C3_TicketIdsContiguousInOrder ==
    []TicketsInPurchaseOrder /\ [][TicketsOnlyAppended]_vars

\* C3 witness: Alice bought ticket 0, then the relaying contract bought ticket 1
C3_Witness ==
    /\ DOMAIN data.sold_tickets = {0, 1}
    /\ data.sold_tickets[0] = Alice
    /\ data.sold_tickets[1] = Proxy
    /\ purchases[1].sender = Alice

\* no two tickets have the same holder, the holders are the players, and no identity
\* has two valid purchases
OneTicketEach ==
    /\ \A j, k \in DOMAIN data.sold_tickets :
          data.sold_tickets[j] = data.sold_tickets[k] => j = k
    /\ {data.sold_tickets[k] : k \in DOMAIN data.sold_tickets} = data.players
    /\ \A i, j \in 1 .. Len(purchases) :
          purchases[i].sender = purchases[j].sender => i = j

\* a buy_ticket of a player, at the exact price on an open raffle, is rejected
SecondPurchaseRejected ==
    (/\ IsBuyTicket(last')
     /\ data.raffle_is_open
     /\ last'.amount = tez(1)
     /\ last'.sender \in data.players)
    => last'.failure = AlreadyParticipated

\* C4: no identity holds more than one ticket: sold_tickets is injective, its values
\* are the players, each identity has at most one valid buy_ticket, and a buy_ticket by
\* a player (raffle open, exact price) is rejected: "Each player can participate only once."
C4_OneTicketPerIdentity ==
    []OneTicketEach /\ [][SecondPurchaseRejected]_vars

\* C4 witness: a player with a ticket called buy_ticket again at the exact price
C4_Witness ==
    /\ IsBuyTicket(last)
    /\ last.failure = AlreadyParticipated
    /\ last.amount = tez(1)
    /\ last.sender \in data.players
    /\ \E k \in DOMAIN data.sold_tickets : data.sold_tickets[k] = last.sender

\* after a valid open_raffle, every open_raffle from the administrator is rejected
LaterOpenRejected ==
    (/\ IsOpenRaffle(last')
     /\ Len(opens) >= 1
     /\ last'.source = data.admin)
    => /\ last'.failure = AlreadyOpen
       /\ opens' = opens

\* C5: open_raffle is valid at most once: after one valid open_raffle, every later
\* open_raffle call of the administrator is rejected with "A raffle is already open.",
\* whatever its amount, jackpot_amount, close_date and hash.
C5_OpenRaffleAtMostOnce ==
    [](Len(opens) <= 1) /\ [][LaterOpenRejected]_vars

\* C5 witness: the administrator called open_raffle again, with other, acceptable
\* parameters, on the open raffle
C5_Witness ==
    /\ Len(opens) = 1
    /\ IsOpenRaffle(last)
    /\ last.source = data.admin
    /\ last.failure = AlreadyOpen
    /\ last.amount >= last.jackpot_amount
    /\ last.close_date > now + 7 * Day
    /\ last.jackpot_amount # data.jackpot
    /\ last.hash_winning_ticket # data.hash_winning_ticket

\* an open_raffle whose source is not the administrator is rejected and changes nothing
NonAdminOpenRejected ==
    (IsOpenRaffle(last') /\ last'.source # data.admin)
    => /\ last'.failure = Unauthorized
       /\ data' = data
       /\ opens' = opens

\* raffle_is_open becomes true only in an open_raffle whose source is the administrator
OpenedOnlyByAdmin ==
    (~data.raffle_is_open /\ data'.raffle_is_open)
    => /\ IsOpenRaffle(last')
       /\ last'.source = data.admin

FirstFailure(checks) ==
    IF \A i \in 1 .. Len(checks) : checks[i][1]
    THEN Valid
    ELSE LET first == CHOOSE i \in 1 .. Len(checks) :
                          /\ ~checks[i][1]
                          /\ \A j \in 1 .. (i - 1) : checks[j][1]
         IN checks[first][2]

\* the preconditions of OpenRaffle, in the stated order, for call c in storage d at time t
OpenRafflePreconditions(c, d, t) ==
    << <<c.source = d.admin, Unauthorized>>,
       <<d.raffle_is_open = FALSE, AlreadyOpen>>,
       <<c.amount >= c.jackpot_amount, InsufficientFunding>>,
       <<c.close_date > t + 7 * Day, WindowTooShort>> >>

\* the preconditions of BuyTicket, in the stated order
BuyTicketPreconditions(c, d) ==
    << <<d.raffle_is_open = TRUE, RaffleClosed>>,
       <<c.amount = tez(1), WrongAmount>>,
       <<c.sender \notin d.players, AlreadyParticipated>> >>

FirstFailureReported ==
    /\ IsOpenRaffle(last') =>
          /\ last'.failure = FirstFailure(OpenRafflePreconditions(last', data, now'))
          /\ (Len(opens') = Len(opens) + 1) <=>
                 (\A i \in 1 .. 4 : OpenRafflePreconditions(last', data, now')[i][1])
          /\ (data' # data) => last'.failure = Valid
    /\ IsBuyTicket(last') =>
          /\ last'.failure = FirstFailure(BuyTicketPreconditions(last', data))
          /\ (Len(purchases') = Len(purchases) + 1) <=>
                 (\A i \in 1 .. 3 : BuyTicketPreconditions(last', data)[i][1])
          /\ (data' # data) => last'.failure = Valid

UnderfundedOpenRejected ==
    (IsOpenRaffle(last') /\ last'.amount < last'.jackpot_amount)
    => /\ last'.failure # Valid
       /\ opens' = opens
       /\ ~data'.raffle_is_open \/ data.raffle_is_open
       /\ (last'.source = data.admin /\ ~data.raffle_is_open)
              => last'.failure = InsufficientFunding

\* an amount equal to or above the jackpot is accepted
FundedOpenAccepted ==
    (/\ IsOpenRaffle(last')
     /\ last'.source = data.admin
     /\ ~data.raffle_is_open
     /\ last'.amount >= last'.jackpot_amount
     /\ last'.close_date > now' + 7 * Day)
    => /\ last'.failure = Valid
       /\ data'.raffle_is_open

\* the amount attached at the opening covers the jackpot
JackpotFunded ==
    data.raffle_is_open => (Len(opens) = 1 /\ opens[1].amount >= data.jackpot)

\* C8: open_raffle is never valid with sp.amount < jackpot_amount (the administrator, on
\* a closed raffle, gets "The administrator does not own enough tz."); an amount equal to
\* or above jackpot_amount is accepted; so whenever the raffle is open, the amount
\* attached at the opening was at least the jackpot.
C8_JackpotFullyFunded ==
    []JackpotFunded /\ [][UnderfundedOpenRejected /\ FundedOpenAccepted]_vars

\* C8 witness: the raffle was opened with more than the jackpot attached
C8_Witness ==
    /\ IsOpenRaffle(last)
    /\ last.failure = Valid
    /\ data.raffle_is_open
    /\ Len(opens) = 1
    /\ opens[1].amount > data.jackpot

\* an open_raffle whose close_date is not after now + 7 days is never valid, and is
\* rejected for that reason when the other verifications pass
ShortWindowRejected ==
    (IsOpenRaffle(last') /\ last'.close_date <= now' + 7 * Day)
    => /\ last'.failure # Valid
       /\ opens' = opens
       /\ (/\ last'.source = data.admin
           /\ ~data.raffle_is_open
           /\ last'.amount >= last'.jackpot_amount)
              => last'.failure = WindowTooShort

\* the closing date is more than 7 days after the opening
WindowOverSevenDays ==
    data.raffle_is_open =>
        (Len(opens) = 1 /\ data.close_date - opens[1].now > 7 * Day)

OnlyExactPriceAccepted ==
    IsBuyTicket(last') =>
        /\ (data.raffle_is_open /\ last'.amount # tez(1)) =>
               /\ last'.failure = WrongAmount
               /\ purchases' = purchases
               /\ data' = data
        /\ last'.failure = Valid => last'.amount = tez(1)

\* every ticket sold was paid one tez
TicketsPaidOneTez ==
    /\ \A i \in 1 .. Len(purchases) : purchases[i].amount = tez(1)
    /\ Len(purchases) = Cardinality(DOMAIN data.sold_tickets)

\* C10: buy_ticket is valid only with sp.amount equal to the ticket price of one tez: on
\* an open raffle any amount below or above it (0 and overpayments included) is rejected
\* with "The sender did not send the right tez amount", so every ticket was paid one tez.
C10_ExactTicketPrice ==
    []TicketsPaidOneTez /\ [][OnlyExactPriceAccepted]_vars

\* C10 witness: after a ticket was sold, a buyer without a ticket overpaid and was rejected
C10_Witness ==
    /\ IsBuyTicket(last)
    /\ last.failure = WrongAmount
    /\ last.amount > tez(1)
    /\ last.sender \notin data.players
    /\ Len(purchases) >= 1

\* a valid open_raffle stores its three parameters and opens the raffle, in one step
OpenRaffleStoresParameters ==
    (IsOpenRaffle(last') /\ last'.failure = Valid)
    => /\ data'.close_date = last'.close_date
       /\ data'.jackpot = last'.jackpot_amount
       /\ data'.hash_winning_ticket = last'.hash_winning_ticket
       /\ data'.raffle_is_open = TRUE
       /\ ~data.raffle_is_open

\* C11: a valid open_raffle sets, in one step, close_date, jackpot and
\* hash_winning_ticket to exactly its parameters close_date, jackpot_amount and
\* hash_winning_ticket, and raffle_is_open to true; jackpot is jackpot_amount, not the
\* (possibly larger) amount attached.
C11_OpenRaffleStoresItsParameters ==
    [][OpenRaffleStoresParameters]_vars

\* C11 witness: the raffle was just opened with 5 tez attached for a jackpot of 1 tez,
\* and the storage holds the parameters of that call
C11_Witness ==
    /\ IsOpenRaffle(last)
    /\ last.failure = Valid
    /\ last.amount = tez(5)
    /\ last.jackpot_amount = tez(1)
    /\ data.jackpot = tez(1)
    /\ data.close_date = last.close_date
    /\ data.hash_winning_ticket = last.hash_winning_ticket
    /\ data.raffle_is_open

\* the raffle is open exactly when a valid open_raffle has happened
OpenSinceFirstValidOpen ==
    data.raffle_is_open <=> Len(opens) >= 1

\* no call sets raffle_is_open back to false, and only a valid open_raffle adds to opens
NeverClosedAgain ==
    /\ data.raffle_is_open => data'.raffle_is_open
    /\ opens' # opens => (IsOpenRaffle(last') /\ last'.failure = Valid)

\* C12: raffle_is_open goes from false to true only: false in the initial state and in
\* every state before the first valid open_raffle, true in every state after it; no
\* call, valid or rejected, sets it back to false.
C12_IsOpenMonotone ==
    []OpenSinceFirstValidOpen /\ [][NeverClosedAgain]_vars

\* C12 witness: the raffle is still open after two tickets were sold and a further
\* open_raffle was rejected
C12_Witness ==
    /\ data.raffle_is_open
    /\ Len(opens) = 1
    /\ Len(purchases) = 2
    /\ IsOpenRaffle(last)
    /\ Rejected(last)

\* a buy_ticket on a raffle that is not open is rejected and sells nothing
BuyBeforeOpenRejected ==
    (IsBuyTicket(last') /\ ~data.raffle_is_open)
    => /\ last'.failure = RaffleClosed
       /\ data' = data
       /\ purchases' = purchases

\* nothing is sold while the raffle is not open; a sale comes after a valid open_raffle
NothingSoldBeforeOpen ==
    /\ ~data.raffle_is_open =>
          /\ data.players = {}
          /\ DOMAIN data.sold_tickets = {}
          /\ Len(purchases) = 0
    /\ Len(purchases) >= 1 => Len(opens) >= 1

\* C13: no ticket is sold before the raffle is opened: a buy_ticket made while
\* raffle_is_open is false is rejected with "The raffle is closed.", so players and
\* sold_tickets are empty whenever raffle_is_open is false, and every valid buy_ticket
\* comes after a valid open_raffle.
C13_NoTicketBeforeOpen ==
    []NothingSoldBeforeOpen /\ [][BuyBeforeOpenRejected]_vars

\* C13 witness: a buyer sent the exact price before the raffle was opened and was rejected
C13_Witness ==
    /\ IsBuyTicket(last)
    /\ last.amount = tez(1)
    /\ last.failure = RaffleClosed
    /\ ~data.raffle_is_open
    /\ data.players = {}

\* what a valid buy_ticket and a valid open_raffle leave alone
FrameOfValidCalls ==
    /\ data'.admin = data.admin
    /\ (IsBuyTicket(last') /\ last'.failure = Valid) =>
          /\ data'.close_date = data.close_date
          /\ data'.jackpot = data.jackpot
          /\ data'.raffle_is_open = data.raffle_is_open
          /\ data'.hash_winning_ticket = data.hash_winning_ticket
          /\ data'.players = data.players \cup {last'.sender}
          /\ Cardinality(data'.players) = Cardinality(data.players) + 1
          /\ Cardinality(DOMAIN data'.sold_tickets) =
                 Cardinality(DOMAIN data.sold_tickets) + 1
          /\ \A k \in DOMAIN data.sold_tickets :
                 k \in DOMAIN data'.sold_tickets
                 /\ data'.sold_tickets[k] = data.sold_tickets[k]
    /\ (IsOpenRaffle(last') /\ last'.failure = Valid) =>
          /\ data'.players = data.players
          /\ data'.sold_tickets = data.sold_tickets

\* C14: a valid buy_ticket changes only players and sold_tickets (one member and one
\* entry more) and leaves admin, close_date, jackpot, raffle_is_open and
\* hash_winning_ticket as they were; a valid open_raffle leaves admin, players and
\* sold_tickets as they were; admin is the address given at construction in every state.
C14_Frame ==
    [](data.admin = Administrator) /\ [][FrameOfValidCalls]_vars

\* C14 witness: the second ticket was just sold, and the terms of the raffle are those
\* of its opening
C14_Witness ==
    /\ IsBuyTicket(last)
    /\ last.failure = Valid
    /\ Cardinality(data.players) = 2
    /\ data.admin = Administrator
    /\ Len(opens) = 1
    /\ data.jackpot = opens[1].jackpot_amount
    /\ data.hash_winning_ticket = opens[1].hash_winning_ticket

\* on an open raffle, a buy_ticket at the exact price by a sender without a ticket is
\* valid, at the instant now' of the call whatever it is, and sells ticket number
\* Len(purchases) to the sender
BuyValidAtAnyTime ==
    (/\ IsBuyTicket(last')
     /\ data.raffle_is_open
     /\ last'.amount = tez(1)
     /\ last'.sender \notin data.players)
    => /\ last'.failure = Valid
       /\ last'.sender \in data'.players
       /\ Len(purchases') = Len(purchases) + 1
       /\ (now' > data.close_date =>
              data'.sold_tickets[Len(purchases)] = last'.sender)

\* C15: buy_ticket does not enforce close_date: with raffle_is_open true, the exact
\* ticket price attached and a sender not in players, buy_ticket is valid at every
\* value of sp.now, instants after close_date included.
C15_BuyTicketIgnoresCloseDate ==
    [][BuyValidAtAnyTime]_vars

\* C15 witness: a ticket was just sold at an instant after close_date
C15_Witness ==
    /\ IsBuyTicket(last)
    /\ last.failure = Valid
    /\ data.raffle_is_open
    /\ now > data.close_date
    /\ last.sender \in data.players

\* the storages that differ from d at most in hash_winning_ticket, jackpot and close_date
TermsVariants(d) ==
    {[d EXCEPT !.hash_winning_ticket = h, !.jackpot = j, !.close_date = c] :
        h \in Hashes \cup {"0x"},
        j \in JackpotAmounts \cup {tez(0)},
        c \in {0, d.close_date, now, now + 7 * Day + 1}}

\* the same buy_ticket call has the same outcome and the same players and sold_tickets
\* in the storage and in each of its variants
SameBuyTicketOnVariants ==
    \A d2 \in TermsVariants(data), p \in Implicit \cup Contracts, a \in BuyAmounts :
        /\ buy_ticket_failure(d2, p, a) = buy_ticket_failure(data, p, a)
        /\ buy_ticket_data(d2, p, a).players = buy_ticket_data(data, p, a).players
        /\ buy_ticket_data(d2, p, a).sold_tickets = buy_ticket_data(data, p, a).sold_tickets

\* C16: buy_ticket never reads the commitment: in two storages that differ only in
\* hash_winning_ticket (likewise only in jackpot or close_date), the same buy_ticket call
\* (same sender, same amount) has the same outcome, valid or the same failure, and the
\* same resulting players and sold_tickets.
C16_BuyTicketIndependentOfTerms ==
    SameBuyTicketOnVariants

\* C16 witness: a ticket is sold under one commitment, and the next purchase by the
\* relaying contract is valid under it and under the other commitment alike
C16_Witness ==
    /\ IsBuyTicket(last)
    /\ last.failure = Valid
    /\ data.hash_winning_ticket = "sha256_345"
    /\ Proxy \notin data.players
    /\ LET d2 == [data EXCEPT !.hash_winning_ticket = "sha256_7"] IN
          /\ d2 \in TermsVariants(data)
          /\ buy_ticket_failure(d2, Proxy, tez(1)) = Valid
          /\ buy_ticket_failure(data, Proxy, tez(1)) = Valid
          /\ buy_ticket_data(d2, Proxy, tez(1)).sold_tickets =
                 buy_ticket_data(data, Proxy, tez(1)).sold_tickets

\* an open_raffle whose immediate caller (sp.sender) is not the admin is not valid and
\* does not open the raffle
ImmediateCallerAuthenticated ==
    (IsOpenRaffle(last') /\ last'.sender # data.admin)
    => /\ last'.failure # Valid
       /\ data'.raffle_is_open = data.raffle_is_open
       /\ opens' = opens

\* C17: both entry points use the same caller identity: the identity open_raffle
\* compares with admin is the immediate caller of the call (the one buy_ticket records),
\* so a call whose immediate caller is not the admin never opens the raffle, even when
\* the admin originated the transaction through an intermediary.
C17_ImmediateCallerIsAuthenticated ==
    [][ImmediateCallerAuthenticated]_vars

\* once open, the storage holds the terms of the opening call
TermsAreThoseOfTheOpening ==
    data.raffle_is_open =>
        /\ Len(opens) >= 1
        /\ data.close_date = opens[1].close_date
        /\ data.jackpot = opens[1].jackpot_amount
        /\ data.hash_winning_ticket = opens[1].hash_winning_ticket

\* once open, no call changes close_date, jackpot or hash_winning_ticket
TermsUnchanged ==
    data.raffle_is_open =>
        /\ data'.close_date = data.close_date
        /\ data'.jackpot = data.jackpot
        /\ data'.hash_winning_ticket = data.hash_winning_ticket

\* C18: once the raffle is open its terms are frozen: in every state after the valid
\* open_raffle, close_date, jackpot and hash_winning_ticket are the values set by that
\* call, whatever open_raffle and buy_ticket calls follow, from any caller.
C18_TermsFrozenOnceOpen ==
    []TermsAreThoseOfTheOpening /\ [][TermsUnchanged]_vars

\* C18 witness: after a ticket was sold the administrator called open_raffle with a
\* lower jackpot, an earlier closing date and another commitment, and was rejected
C18_Witness ==
    /\ Len(purchases) >= 1
    /\ IsOpenRaffle(last)
    /\ last.source = data.admin
    /\ Rejected(last)
    /\ last.jackpot_amount < data.jackpot
    /\ last.close_date < data.close_date
    /\ last.hash_winning_ticket # data.hash_winning_ticket
    /\ data.jackpot = opens[1].jackpot_amount

\* the balance covers the jackpot and the tickets, and is 0 until the raffle is opened
CustodyCoversPromises ==
    /\ balance >= data.jackpot + tez(1) * Cardinality(data.players)
    /\ ~data.raffle_is_open => balance = 0

\* a rejected call transfers nothing and a valid buy_ticket transfers one ticket price
BalanceMoves ==
    /\ Rejected(last') => balance' = balance
    /\ (IsBuyTicket(last') /\ last'.failure = Valid) => balance' = balance + tez(1)
    /\ (IsOpenRaffle(last') /\ last'.failure = Valid) => balance' = balance + last'.amount

\* C19: with the balance of the contract being the sum of the amounts attached to the
\* valid calls (a rejected call transfers nothing), the balance is at least
\* jackpot + ticket_price * players.size() in every reachable state, it is 0 while
\* raffle_is_open is false, and each valid buy_ticket raises it by exactly one ticket price.
C19_CustodyCoversPromises ==
    []CustodyCoversPromises /\ [][BalanceMoves]_vars

\* C19 witness: two tickets are sold on a raffle opened with 5 tez for a jackpot of
\* 1 tez: the balance is 7 tez, the promises are 3 tez
C19_Witness ==
    /\ data.raffle_is_open
    /\ Cardinality(data.players) = 2
    /\ data.jackpot = tez(1)
    /\ balance = tez(7)
    /\ IsBuyTicket(last)
    /\ last.failure = Valid

====
